---- MODULE Spec2Model ----
(***************************************************************************)
(* A model of the Model/ scripts of the repository:                        *)
(*   - query_opensanctions_many  (src/Model/utils.py), the bounded         *)
(*     concurrent fetcher, as a state machine of asyncio tasks;            *)
(*   - extract_entities / delete_duplicates (src/Model/utils.py), the      *)
(*     entity deduplicator, one action per loop iteration;                 *)
(*   - select_os_match_llm (src/Model/utils.py), a pure function;          *)
(*   - the orchestration run of src/Model/model.py.                        *)
(* Each component has its own specification over the shared variables; the *)
(* variables of the other components stay at their idle values.            *)
(***************************************************************************)
EXTENDS Integers, Sequences, FiniteSets, TLC

VARIABLES
  \* ---- query_opensanctions_many
  names,            \* the `names` argument, a sequence of opaque name keys
  max_concurrency,  \* the `max_concurrency` argument
  sem,              \* value of asyncio.Semaphore(max_concurrency)
  tpc,              \* position of each _one(session, n) task
  reply,            \* what the transport answered to each task's request
  tret,             \* the (name, data) pair each finished task returned
  doneq,            \* tasks finished and not yet yielded by as_completed
  results,          \* the `results` dict
  fpc,              \* position of query_opensanctions_many itself
  fret,             \* its return value
  lastdone,         \* for each name, the task for it that completed last
  \* ---- extract_entities
  ents,             \* the spans ner(text) returned
  ei,               \* index of the span the classification loop is at
  persons,          \* the `persons` list
  orgs,             \* the `orgs` list
  misc,             \* the `misc` list
  cat,              \* the key of the returned dict being computed
  entities,         \* the returned dict, key by key
  epc,              \* position of extract_entities
  \* ---- delete_duplicates
  items,            \* the `items` argument
  di,               \* index of the item the loop is at
  out,              \* the `out` list
  prev,             \* `out` as it was before the last iteration
  dpc,              \* position of delete_duplicates
  \* ---- select_os_match_llm
  os_json,          \* the `os_json` argument
  max_candidates,   \* the `max_candidates` argument
  llm_reply,        \* the text the model answered, as json.loads reads it
  sret,             \* the return value
  spc,              \* position of select_os_match_llm
  \* ---- the run of model.py
  env_ok,           \* whether the required environment variables are set
  all_entities,     \* persons + orgs + misc
  os_results,       \* what query_opensanctions_many returned
  ri,               \* index of the entity the loop is at
  report,           \* what was printed for each entity, in order
  exit_code,        \* the exit status of the process
  rpc               \* position of the script

fvars == <<names, max_concurrency, sem, tpc, reply, tret, doneq, results, fpc, fret,
          lastdone>>
evars == <<ents, ei, persons, orgs, misc, cat, entities, epc>>
dvars == <<items, di, out, prev, dpc>>
svars == <<os_json, max_candidates, llm_reply, sret, spc>>
rvars == <<env_ok, all_entities, os_results, ri, report, exit_code, rpc>>
vars == <<fvars, evars, dvars, svars, rvars>>

(***************************************************************************)
(* Bounds of the model.                                                    *)
(***************************************************************************)
MaxNames == 3
MaxConc == 2
MaxItems == 3
MaxEnts == 3
MaxResults == 2
MaxCandidatesArg == 2
MaxEntities == 3

None == "None"

(***************************************************************************)
(* query_opensanctions_many                                                *)
(***************************************************************************)
\* Names are opaque dictionary keys: the code only hashes and compares them.
\* A list is taken up to renaming: its i-th name is one of the earlier names
\* or the next unused key.
RECURSIVE NameLists(_)
NameLists(n) ==
  IF n = 0 THEN {<<>>}
  ELSE LET shorter == NameLists(n - 1)
           Used(s) == {s[i] : i \in 1..Len(s)}
       IN  UNION {{Append(s, k) : k \in Used(s) \cup {Cardinality(Used(s)) + 1}}
                  : s \in shorter}

\* The exceptions session.get / raise_for_status / r.json can raise.
Errors == {"HTTPStatusError", "TimeoutException"}

\* The JSON body the service sends for a name when the request succeeds.
ServerBody(n) == [results |-> <<[id |-> n]>>]

\* except Exception as e: return name, {"warning": ..., "results": []}
FailureMarker(n, e) == [warning |-> <<"Error", n, e>>, results |-> <<>>]

\* _one without its try/except: the exception ends the task.
OneResultNoCatch(n, r) ==
  IF r = "ok" THEN [exc |-> None, val |-> <<n, ServerBody(n)>>]
              ELSE [exc |-> r, val |-> None]

\* How _one ends for a request answered with `r`: it returns the pair
\* (name, data), exc = None; every exception is caught and turned into a
\* returned failure marker.
OneResult(n, r) ==
  IF r = "ok" THEN [exc |-> None, val |-> <<n, ServerBody(n)>>]
              ELSE [exc |-> None, val |-> <<n, FailureMarker(n, r)>>]

\* An acquire that never waits.
SemFreeNoWait(v) == v >= 0

\* Semaphore.acquire proceeds without waiting only when the value is positive.
SemFree(v) == v > 0

\* An exit from the `async with` block that gives no slot back.
SemReleaseLeak(v) == v

\* Semaphore.release, run by `async with sem` on every exit from its block.
SemRelease(v) == v + 1

\* A write that makes every key hold the data written last.
DictSetShared(d, k, v) == [x \in (DOMAIN d) \cup {k} |-> v]

\* A write that keeps the data a key already holds.
DictSetDefault(d, k, v) ==
  [x \in (DOMAIN d) \cup {k} |-> IF x \in DOMAIN d THEN d[x] ELSE v]

\* results[name] = data
DictSet(d, k, v) == [x \in (DOMAIN d) \cup {k} |-> IF x = k THEN v ELSE d[x]]

Tasks == 1..Len(names)

InFlight == {i \in Tasks : tpc[i] = "inflight"}

FetchStart ==
  /\ names \in UNION {NameLists(n) : n \in 0..MaxNames}
  /\ max_concurrency \in 0..MaxConc
  /\ sem = max_concurrency
  /\ tpc = [i \in 1..Len(names) |-> "created"]
  /\ reply = [i \in 1..Len(names) |-> None]
  /\ tret = [i \in 1..Len(names) |-> [exc |-> None, val |-> None]]
  /\ doneq = <<>>
  /\ results = <<>>
  /\ fpc = "collecting"
  /\ fret = None
  /\ lastdone = <<>>

\* A task runs from its start to its first suspension: it enters
\* `async with sem` and either takes a slot and sends its request, or
\* blocks in acquire.
Start(i) ==
  /\ fpc = "collecting"
  /\ tpc[i] = "created"
  /\ IF SemFree(sem)
       THEN /\ sem' = sem - 1
            /\ tpc' = [tpc EXCEPT ![i] = "inflight"]
       ELSE /\ sem' = sem
            /\ tpc' = [tpc EXCEPT ![i] = "waiting"]
  /\ UNCHANGED <<names, max_concurrency, reply, tret, doneq, results, fpc, fret,
                 lastdone>>
  /\ UNCHANGED <<evars, dvars, svars, rvars>>

\* A task blocked in acquire is woken once a slot is free and sends its request.
Admit(i) ==
  /\ fpc = "collecting"
  /\ tpc[i] = "waiting"
  /\ SemFree(sem)
  /\ sem' = sem - 1
  /\ tpc' = [tpc EXCEPT ![i] = "inflight"]
  /\ UNCHANGED <<names, max_concurrency, reply, tret, doneq, results, fpc, fret,
                 lastdone>>
  /\ UNCHANGED <<evars, dvars, svars, rvars>>

\* The request of task i is answered with `r`; the task leaves the
\* `async with` block (releasing its slot) and returns its pair.
Finish(i, r) ==
  /\ fpc = "collecting"
  /\ tpc[i] = "inflight"
  /\ reply' = [reply EXCEPT ![i] = r]
  /\ sem' = SemRelease(sem)
  /\ tret' = [tret EXCEPT ![i] = OneResult(names[i], r)]
  /\ tpc' = [tpc EXCEPT ![i] = "done"]
  /\ doneq' = Append(doneq, i)
  /\ lastdone' = [n \in (DOMAIN lastdone) \cup {names[i]} |->
                    IF n = names[i] THEN i ELSE lastdone[n]]
  /\ UNCHANGED <<names, max_concurrency, results, fpc, fret>>
  /\ UNCHANGED <<evars, dvars, svars, rvars>>

\* 2xx response with a JSON body: return name, r.json()
RespondOk(i) == Finish(i, "ok")

\* non-2xx status, network error or timeout: the except branch
RespondFail(i) == \E e \in Errors : Finish(i, e)

\* for coro in asyncio.as_completed(tasks): name, data = await coro;
\* results[name] = data  -- in order of completion. Awaiting a task that
\* ended with an exception re-raises it out of query_opensanctions_many.
Collect ==
  /\ fpc = "collecting"
  /\ doneq # <<>>
  /\ LET i == Head(doneq)
     IN  /\ tpc' = [tpc EXCEPT ![i] = "collected"]
         /\ IF tret[i].exc = None
              THEN /\ results' = DictSet(results, tret[i].val[1], tret[i].val[2])
                   /\ fpc' = fpc
              ELSE /\ results' = results
                   /\ fpc' = "raised"
  /\ doneq' = Tail(doneq)
  /\ UNCHANGED <<names, max_concurrency, sem, reply, tret, fret, lastdone>>
  /\ UNCHANGED <<evars, dvars, svars, rvars>>

\* Returning as soon as one task was yielded.
AllCollectedAny == \E i \in Tasks : tpc[i] = "collected"

\* as_completed is exhausted once every task was yielded: return results
AllCollected == \A i \in Tasks : tpc[i] = "collected"

Return ==
  /\ fpc = "collecting"
  /\ AllCollected
  /\ fpc' = "returned"
  /\ fret' = results
  /\ UNCHANGED <<names, max_concurrency, sem, tpc, reply, tret, doneq, results,
                 lastdone>>
  /\ UNCHANGED <<evars, dvars, svars, rvars>>

FetchNext ==
  \/ \E i \in Tasks : Start(i)
  \/ \E i \in Tasks : Admit(i)
  \/ \E i \in Tasks : RespondOk(i)
  \/ \E i \in Tasks : RespondFail(i)
  \/ Collect
  \/ Return

(***************************************************************************)
(* extract_entities.delete_duplicates                                      *)
(* A Python str is a sequence of one-character strings.                    *)
(***************************************************************************)
W_Empty == <<>>
W_Blank == <<" ">>
W_Marker == <<"#", "#">>
W_Juan == <<"J", "u", "a", "n">>
W_juan == <<"j", "u", "a", "n">>
W_Pedro == <<"P", "e", "d", "r", "o">>
W_JuanPerez == <<"J", "u", "a", "n", " ", "P", "é", "r", "e", "z">>
W_Garcia == <<"G", "a", "r", "c", "í", "a">>
W_JuanGarcia == <<"J", "u", "a", "n", " ", "G", "a", "r", "c", "í", "a">>
W_Trump == <<"T", "r", "u", "m", "p">>
W_DonaldTrump == <<"D", "o", "n", "a", "l", "d", " ", "T", "r", "u", "m", "p">>
W_an == <<"a", "n">>
W_uan == <<"u", "a", "n">>
W_MarkAn == <<"#", "#", "a", "n">>
W_JuanSp == <<"J", "u", "a", "n", " ">>
W_JuMarkAn == <<"J", "u", "#", "#", "a", "n">>

\* The mentions the input lists are drawn from: the names of the documented
\* examples, and mentions that differ from them in case, in surrounding
\* whitespace or in "##" markers, or are empty once normalized.
Pool ==
  { W_Empty, W_Blank, W_Marker, W_Juan, W_juan, W_Pedro, W_JuanPerez,
    W_Garcia, W_JuanGarcia, W_Trump, W_DonaldTrump, W_an, W_uan, W_MarkAn,
    W_JuanSp, W_JuMarkAn }

RECURSIVE ListsOver(_, _)
ListsOver(S, n) ==
  IF n = 0 THEN {<<>>}
  ELSE LET shorter == ListsOver(S, n - 1)
       IN  shorter \cup {Append(l, x) : l \in {m \in shorter : Len(m) = n - 1}, x \in S}

\* str.lower() on the characters of the pool
Lower(c) ==
  CASE c = "J" -> "j"
    [] c = "P" -> "p"
    [] c = "G" -> "g"
    [] c = "T" -> "t"
    [] c = "D" -> "d"
    [] OTHER -> c

ToLower(s) == [i \in 1..Len(s) |-> Lower(s[i])]

Whitespace == {" "}

\* A removal of the "##" markers at the start of the string only.
RECURSIVE RemoveLeadingMarkers(_)
RemoveLeadingMarkers(s) ==
  IF Len(s) >= 2 /\ s[1] = "#" /\ s[2] = "#"
    THEN RemoveLeadingMarkers(SubSeq(s, 3, Len(s)))
    ELSE s

\* s.replace("##", ""): every non-overlapping "##", scanning from the left
RECURSIVE RemoveMarkers(_)
RemoveMarkers(s) ==
  IF s = <<>> THEN <<>>
  ELSE IF Len(s) >= 2 /\ s[1] = "#" /\ s[2] = "#"
         THEN RemoveMarkers(SubSeq(s, 3, Len(s)))
         ELSE <<s[1]>> \o RemoveMarkers(Tail(s))

RECURSIVE LStrip(_)
LStrip(s) ==
  IF s # <<>> /\ s[1] \in Whitespace THEN LStrip(Tail(s)) ELSE s

RECURSIVE RStrip(_)
RStrip(s) ==
  IF s # <<>> /\ s[Len(s)] \in Whitespace
    THEN RStrip(SubSeq(s, 1, Len(s) - 1)) ELSE s

\* s.strip()
Strip(s) == RStrip(LStrip(s))

\* norm(s): (s or "").replace("##", "").strip().lower()
norm(s) == ToLower(Strip(RemoveMarkers(s)))

\* a in b, for Python strings
IsSubstr(a, b) ==
  \E k \in 0..(Len(b) - Len(a)) : SubSeq(b, k + 1, k + Len(a)) = a

\* any(lw == norm(x) for x in out)
IsExactDuplicate(o, it) == \E i \in 1..Len(o) : norm(it) = norm(o[i])

\* A containment test that wants the stored entry strictly longer.
IsContainedStrict(o, it) ==
  \E i \in 1..Len(o) : IsSubstr(norm(it), norm(o[i])) /\ Len(o[i]) > Len(it)

\* contained_idx is not None:
\* some x in out with lw in norm(x) and len(x) >= len(it)
IsContained(o, it) ==
  \E i \in 1..Len(o) : IsSubstr(norm(it), norm(o[i])) /\ Len(o[i]) >= Len(it)

\* A list of the shorter entries that forgets the containment test.
shorter_idxs_by_length(o, it) ==
  LET Test(i) == Len(it) > Len(o[i])
  IN  SelectSeq([i \in 1..Len(o) |-> i], Test)

\* shorter_idxs = [i for i, x in enumerate(out) if norm(x) in lw and len(it) > len(x)]
shorter_idxs(o, it) ==
  LET Test(i) == IsSubstr(norm(o[i]), norm(it)) /\ Len(it) > Len(o[i])
  IN  SelectSeq([i \in 1..Len(o) |-> i], Test)

Reversed(s) == [i \in 1..Len(s) |-> s[Len(s) + 1 - i]]

\* del s[i]
DelAt(s, i) == SubSeq(s, 1, i - 1) \o SubSeq(s, i + 1, Len(s))

\* for i in idxs: del s[i]
RECURSIVE DelEach(_, _)
DelEach(s, idxs) ==
  IF idxs = <<>> THEN s ELSE DelEach(DelAt(s, Head(idxs)), Tail(idxs))

\* A replacement that drops every shorter form and appends the new mention.
ReplaceShorterAtEnd(o, it, idxs) == Append(DelEach(o, Reversed(idxs)), it)

\* first = shorter_idxs[0]; out[first] = it;
\* for i in reversed(shorter_idxs[1:]): del out[i]
ReplaceShorter(o, it, idxs) ==
  DelEach([o EXCEPT ![Head(idxs)] = it], Reversed(Tail(idxs)))

\* One iteration of `for it in items`: the value of `out` after it.
DedupIteration(o, it) ==
  IF it = <<>> THEN o                         \* if not it: continue
  ELSE IF norm(it) = <<>> THEN o              \* if not lw: continue
  ELSE IF IsExactDuplicate(o, it) THEN o      \* 1)
  ELSE IF IsContained(o, it) THEN o           \* 2)
  ELSE IF shorter_idxs(o, it) # <<>>          \* 3)
         THEN ReplaceShorter(o, it, shorter_idxs(o, it))
  ELSE Append(o, it)                          \* 4)

\* delete_duplicates(items) is entered: out = []
DedupStart(l) ==
  /\ items = l
  /\ di = 1
  /\ out = <<>>
  /\ prev = <<>>
  /\ dpc = "loop"

DedupIdle ==
  /\ items = <<>>
  /\ di = 1
  /\ out = <<>>
  /\ prev = <<>>
  /\ dpc = "idle"

\* for it in items: ...
DedupStep ==
  /\ dpc = "loop"
  /\ di <= Len(items)
  /\ out' = DedupIteration(out, items[di])
  /\ prev' = out
  /\ di' = di + 1
  /\ UNCHANGED <<items, dpc>>
  /\ UNCHANGED <<fvars, evars, svars, rvars>>

\* return out
DedupReturn ==
  /\ dpc = "loop"
  /\ di > Len(items)
  /\ dpc' = "returned"
  /\ UNCHANGED <<items, di, out, prev>>
  /\ UNCHANGED <<fvars, evars, svars, rvars>>

DedupNext == DedupStep \/ DedupReturn

(***************************************************************************)
(* extract_entities                                                        *)
(***************************************************************************)
\* entity_group values of the NER model; "LOC" is one the code does not keep.
Labels == {"PER", "ORG", "MISC", "LOC"}

ExtractWords == {W_Trump, W_DonaldTrump, W_MarkAn}

Spans == [word : ExtractWords, entity_group : Labels]

Categories == <<"persons", "organizations", "misc">>

\* A classification that files MISC spans with the organizations.
ListOfLabelMiscAsOrg(label) ==
  CASE label = "PER" -> "persons"
    [] label = "ORG" -> "organizations"
    [] label = "MISC" -> "organizations"
    [] OTHER -> None

\* if label == "PER": ... elif label == "ORG": ... elif label == "MISC": ...
ListOfLabel(label) ==
  CASE label = "PER" -> "persons"
    [] label = "ORG" -> "organizations"
    [] label = "MISC" -> "misc"
    [] OTHER -> None

\* The argument of the delete_duplicates call that computes key `c`.
RawList(c) ==
  CASE c = "persons" -> persons
    [] c = "organizations" -> orgs
    [] c = "misc" -> misc

\* ents = ner(text); persons, orgs, misc = [], [], []
ExtractStart ==
  /\ ents \in ListsOver(Spans, MaxEnts)
  /\ ei = 1
  /\ persons = <<>>
  /\ orgs = <<>>
  /\ misc = <<>>
  /\ cat = 0
  /\ entities = [c \in {} |-> <<>>]
  /\ epc = "classify"

ExtractIdle ==
  /\ ents = <<>>
  /\ ei = 1
  /\ persons = <<>>
  /\ orgs = <<>>
  /\ misc = <<>>
  /\ cat = 0
  /\ entities = [c \in {} |-> <<>>]
  /\ epc = "idle"

\* for e in ents: one iteration
Classify ==
  /\ epc = "classify"
  /\ ei <= Len(ents)
  /\ LET e == ents[ei]
         list == ListOfLabel(e.entity_group)
     IN  /\ persons' = IF list = "persons" THEN Append(persons, e.word) ELSE persons
         /\ orgs' = IF list = "organizations" THEN Append(orgs, e.word) ELSE orgs
         /\ misc' = IF list = "misc" THEN Append(misc, e.word) ELSE misc
  /\ ei' = ei + 1
  /\ UNCHANGED <<ents, cat, entities, epc>>
  /\ UNCHANGED <<fvars, dvars, svars, rvars>>

\* The loop is over: the returned dict is built key by key, each key by a
\* call of delete_duplicates; here the call for the next key is entered.
CallDedup ==
  /\ epc = "classify"
  /\ ei > Len(ents)
  /\ dpc = "idle"
  /\ cat < Len(Categories)
  /\ cat' = cat + 1
  /\ items' = RawList(Categories[cat + 1])
  /\ di' = 1
  /\ out' = <<>>
  /\ prev' = <<>>
  /\ dpc' = "loop"
  /\ UNCHANGED <<ents, ei, persons, orgs, misc, entities, epc>>
  /\ UNCHANGED <<fvars, svars, rvars>>

\* The call returned: its value becomes the value of the key.
StoreKey ==
  /\ epc = "classify"
  /\ dpc = "returned"
  /\ entities' = DictSet(entities, Categories[cat], out)
  /\ items' = <<>>
  /\ di' = 1
  /\ out' = <<>>
  /\ prev' = <<>>
  /\ dpc' = "idle"
  /\ UNCHANGED <<ents, ei, persons, orgs, misc, cat, epc>>
  /\ UNCHANGED <<fvars, svars, rvars>>

\* return {...}
ExtractReturn ==
  /\ epc = "classify"
  /\ dpc = "idle"
  /\ cat = Len(Categories)
  /\ epc' = "returned"
  /\ UNCHANGED <<ents, ei, persons, orgs, misc, cat, entities>>
  /\ UNCHANGED <<fvars, dvars, svars, rvars>>

ExtractNext ==
  \/ Classify
  \/ CallDedup
  \/ DedupStep
  \/ DedupReturn
  \/ StoreKey
  \/ ExtractReturn

(***************************************************************************)
(* select_os_match_llm                                                     *)
(* A Python value that is either None or a candidate is modelled as a      *)
(* sequence: <<>> for None, <<c>> for candidate c.                         *)
(***************************************************************************)
NoCandidate == <<>>

\* The "id" values of candidate records; Absent stands for a record that has
\* no "id" key, for which r.get("id") is None.
Absent == "absent"
CandIds == {"a", "b", "NONE", "", Absent}

\* Candidate records: the id and one more field that tells apart two
\* candidates with the same id.
Cands == [id : CandIds, caption : {"x", "y"}]

\* The os_json argument: something that is no dict, a dict without a
\* "results" key, or a dict whose "results" is a list of candidates.
OsJsons ==
  {[kind |-> "other", has_results |-> FALSE, results |-> <<>>],
   [kind |-> "dict", has_results |-> FALSE, results |-> <<>>]}
  \cup {[kind |-> "dict", has_results |-> TRUE, results |-> l] :
          l \in ListsOver(Cands, MaxResults)}

\* The model's reply as json.loads reads it: text that is no JSON, JSON that
\* is no object, an object without "id", or an object whose "id" is a string
\* or null.
Null == "null"
Replies ==
  {[kind |-> "not_json", has_id |-> FALSE, id |-> Null],
   [kind |-> "json_other", has_id |-> FALSE, id |-> Null],
   [kind |-> "object", has_id |-> FALSE, id |-> Null]}
  \cup {[kind |-> "object", has_id |-> TRUE, id |-> v] :
          v \in {"a", "b", "c", "NONE", "", Null}}

\* try: data = json.loads(text); chosen_id = data.get("id")
\* except Exception: chosen_id = None
\* json.loads raises on text that is no JSON; .get raises on a value that is
\* no object; .get returns None when the key is missing.
ChosenId(rep) ==
  IF rep.kind = "object" /\ rep.has_id THEN rep.id ELSE Null

\* not chosen_id: None and the empty string are falsy
Falsy(v) == v = Null \/ v = ""

\* os_json["results"][:max_candidates]
FirstN(l, n) == SubSeq(l, 1, IF n < Len(l) THEN n ELSE Len(l))

\* A search that returns the last candidate with the chosen id.
MatchLast(cs, id) ==
  LET hits == {i \in 1..Len(cs) : cs[i].id = id}
  IN  IF hits = {} THEN NoCandidate
      ELSE <<cs[CHOOSE i \in hits : \A k \in hits : k <= i]>>

\* for r in cands: if r.get("id") == chosen_id: return r
\* return None
MatchFirst(cs, id) ==
  LET hits == {i \in 1..Len(cs) : cs[i].id = id}
  IN  IF hits = {} THEN NoCandidate
      ELSE <<cs[CHOOSE i \in hits : \A k \in hits : i <= k]>>

\* An id test that lets "NONE" through to the search.
IsNoSelectionFalsyOnly(id) == Falsy(id)

\* if not chosen_id or chosen_id == "NONE": return None
IsNoSelection(id) == Falsy(id) \/ id = "NONE"

\* The value select_os_match_llm returns when the model call answers `rep`.
SelectOsMatch(os, rep, maxc) ==
  IF os.kind # "dict" \/ ~os.has_results \/ os.results = <<>>
    THEN NoCandidate
  ELSE IF IsNoSelection(ChosenId(rep)) THEN NoCandidate
  ELSE MatchFirst(FirstN(os.results, maxc), ChosenId(rep))

SelectStart ==
  /\ os_json \in OsJsons
  /\ max_candidates \in 0..MaxCandidatesArg
  /\ llm_reply = [kind |-> "not_json", has_id |-> FALSE, id |-> Null]
  /\ sret = NoCandidate
  /\ spc = "call"

SelectIdle ==
  /\ os_json = [kind |-> "other", has_results |-> FALSE, results |-> <<>>]
  /\ max_candidates = 0
  /\ llm_reply = [kind |-> "not_json", has_id |-> FALSE, id |-> Null]
  /\ sret = NoCandidate
  /\ spc = "idle"

\* The guard at the top returns None without calling the model.
SelectNoResults ==
  /\ spc = "call"
  /\ os_json.kind # "dict" \/ ~os_json.has_results \/ os_json.results = <<>>
  /\ sret' = NoCandidate
  /\ spc' = "returned"
  /\ UNCHANGED <<os_json, max_candidates, llm_reply>>
  /\ UNCHANGED <<fvars, evars, dvars, rvars>>

\* The model call answers and the rest of the function runs.
SelectAnswered ==
  /\ spc = "call"
  /\ ~(os_json.kind # "dict" \/ ~os_json.has_results \/ os_json.results = <<>>)
  /\ \E rep \in Replies :
       /\ llm_reply' = rep
       /\ sret' = SelectOsMatch(os_json, rep, max_candidates)
  /\ spc' = "returned"
  /\ UNCHANGED <<os_json, max_candidates>>
  /\ UNCHANGED <<fvars, evars, dvars, rvars>>

\* (prompt | llm).invoke(...) raises: the exception leaves the function.
SelectRaises ==
  /\ spc = "call"
  /\ ~(os_json.kind # "dict" \/ ~os_json.has_results \/ os_json.results = <<>>)
  /\ spc' = "raised"
  /\ UNCHANGED <<os_json, max_candidates, llm_reply, sret>>
  /\ UNCHANGED <<fvars, evars, dvars, rvars>>

SelectNext == SelectNoResults \/ SelectAnswered \/ SelectRaises

(***************************************************************************)
(* The run of model.py                                                     *)
(***************************************************************************)
\* The entity names of a run.
EntityNames == {"e1", "e2"}

\* max_candidates=8 in the call of select_os_match_llm
RunMaxCandidates == 8

\* What query_opensanctions_many holds for a name: a response with no
\* candidate, with one, with two, or a failure marker (no candidate either).
LookupResults ==
  {[kind |-> "dict", has_results |-> TRUE, results |-> l] :
     l \in {<<>>,
            <<[id |-> "a", caption |-> "x"]>>,
            <<[id |-> "a", caption |-> "x"], [id |-> "b", caption |-> "y"]>>}}

\* os_results.get(name, {})
DictGet(d, k) ==
  IF k \in DOMAIN d THEN d[k]
  ELSE [kind |-> "dict", has_results |-> FALSE, results |-> <<>>]

RunStart ==
  /\ env_ok \in BOOLEAN
  /\ all_entities = <<>>
  /\ os_results = <<>>
  /\ ri = 1
  /\ report = <<>>
  /\ exit_code = None
  /\ rpc = "config"

RunIdle ==
  /\ env_ok = TRUE
  /\ all_entities = <<>>
  /\ os_results = <<>>
  /\ ri = 1
  /\ report = <<>>
  /\ exit_code = None
  /\ rpc = "idle"

\* llm = model_ini(); retriever = retrieve_docs(...): os.environ[...] of a
\* variable that is not set raises KeyError, which nothing catches.
Configure ==
  /\ rpc = "config"
  /\ IF env_ok
       THEN rpc' = "rag" /\ exit_code' = exit_code
       ELSE rpc' = "exited" /\ exit_code' = 1
  /\ UNCHANGED <<env_ok, all_entities, os_results, ri, report>>
  /\ UNCHANGED <<fvars, evars, dvars, svars>>

\* result = rag.invoke(args.query) answers
RagAnswers ==
  /\ rpc = "rag"
  /\ rpc' = "ner"
  /\ UNCHANGED <<env_ok, all_entities, os_results, ri, report, exit_code>>
  /\ UNCHANGED <<fvars, evars, dvars, svars>>

\* result = rag.invoke(args.query) raises: the statement is in no try block,
\* the traceback is printed and the process ends with status 1.
RagRaises ==
  /\ rpc = "rag"
  /\ rpc' = "exited"
  /\ exit_code' = 1
  /\ UNCHANGED <<env_ok, all_entities, os_results, ri, report>>
  /\ UNCHANGED <<fvars, evars, dvars, svars>>

\* entities = extract_entities(ner, answer_text);
\* all_entities = persons + orgs + misc; if all_entities: ... else: print
FindEntities ==
  /\ rpc = "ner"
  /\ \E l \in ListsOver(EntityNames, MaxEntities) :
       /\ all_entities' = l
       /\ rpc' = IF l # <<>> THEN "query" ELSE "finish"
  /\ UNCHANGED <<env_ok, os_results, ri, report, exit_code>>
  /\ UNCHANGED <<fvars, evars, dvars, svars>>

\* os_results = asyncio.run(query_opensanctions_many(all_entities, ...)):
\* one Lookup Result per name, a failed lookup being a failure marker.
Query ==
  /\ rpc = "query"
  /\ os_results' \in [{all_entities[i] : i \in 1..Len(all_entities)} -> LookupResults]
  /\ rpc' = "loop"
  /\ UNCHANGED <<env_ok, all_entities, ri, report, exit_code>>
  /\ UNCHANGED <<fvars, evars, dvars, svars>>

\* One iteration of `for name in all_entities` in which the selection call,
\* if made, answers: chosen = select_os_match_llm(...); if chosen, the
\* summary is printed -- summarize_entity_with_llm catches a failure of its
\* own model call and returns a message instead.
LoopStep ==
  /\ rpc = "loop"
  /\ ri <= Len(all_entities)
  /\ LET data == DictGet(os_results, all_entities[ri])
     IN  \E rep \in Replies, summary \in {"summary", "summary_unavailable"} :
           LET chosen == SelectOsMatch(data, rep, RunMaxCandidates)
           IN  report' = Append(report,
                                IF chosen # NoCandidate THEN summary ELSE "no_match")
  /\ ri' = ri + 1
  /\ UNCHANGED <<env_ok, all_entities, os_results, exit_code, rpc>>
  /\ UNCHANGED <<fvars, evars, dvars, svars>>

\* The model call of select_os_match_llm raises: the exception leaves the
\* function and the loop, and `except Exception as e` around the whole block
\* prints it.
LoopSelectRaises ==
  /\ rpc = "loop"
  /\ ri <= Len(all_entities)
  /\ DictGet(os_results, all_entities[ri]).results # <<>>
  /\ rpc' = "finish"
  /\ UNCHANGED <<env_ok, all_entities, os_results, ri, report, exit_code>>
  /\ UNCHANGED <<fvars, evars, dvars, svars>>

\* The loop ran through every entity.
LoopEnd ==
  /\ rpc = "loop"
  /\ ri > Len(all_entities)
  /\ rpc' = "finish"
  /\ UNCHANGED <<env_ok, all_entities, os_results, ri, report, exit_code>>
  /\ UNCHANGED <<fvars, evars, dvars, svars>>

\* The end of the script is reached: exit status 0.
Exit ==
  /\ rpc = "finish"
  /\ rpc' = "exited"
  /\ exit_code' = 0
  /\ UNCHANGED <<env_ok, all_entities, os_results, ri, report>>
  /\ UNCHANGED <<fvars, evars, dvars, svars>>

RunNext ==
  \/ Configure
  \/ RagAnswers
  \/ RagRaises
  \/ FindEntities
  \/ Query
  \/ LoopStep
  \/ LoopSelectRaises
  \/ LoopEnd
  \/ Exit

(***************************************************************************)
(* Specifications                                                          *)
(***************************************************************************)
FetchIdle ==
  /\ names = <<>>
  /\ max_concurrency = 0
  /\ sem = 0
  /\ tpc = <<>>
  /\ reply = <<>>
  /\ tret = <<>>
  /\ doneq = <<>>
  /\ results = <<>>
  /\ fpc = "idle"
  /\ fret = None
  /\ lastdone = <<>>

FetchInit == FetchStart /\ ExtractIdle /\ DedupIdle /\ SelectIdle /\ RunIdle

SpecFetch == FetchInit /\ [][FetchNext]_vars

\* The event loop runs every task that can run, and every request sent is
\* answered or fails: as long as a step of the batch is possible, one is taken.
SpecFetchFair == FetchInit /\ [][FetchNext]_vars /\ WF_vars(FetchNext)

DedupInit ==
  /\ \E l \in ListsOver(Pool, MaxItems) : DedupStart(l)
  /\ FetchIdle /\ ExtractIdle /\ SelectIdle /\ RunIdle

SpecDedup == DedupInit /\ [][DedupNext]_vars

ExtractInit == ExtractStart /\ DedupIdle /\ FetchIdle /\ SelectIdle /\ RunIdle

SpecExtract == ExtractInit /\ [][ExtractNext]_vars

SelectInit == SelectStart /\ FetchIdle /\ ExtractIdle /\ DedupIdle /\ RunIdle

SpecSelect == SelectInit /\ [][SelectNext]_vars

RunInit == RunStart /\ FetchIdle /\ ExtractIdle /\ DedupIdle /\ SelectIdle

SpecRun == RunInit /\ [][RunNext]_vars

(***************************************************************************)
(* Properties of query_opensanctions_many                                  *)
(***************************************************************************)
NameSet == {names[i] : i \in Tasks}

DistinctNames == \A i, j \in Tasks : names[i] = names[j] => i = j

IsFailureMarker(d) ==
  /\ "warning" \in DOMAIN d
  /\ d.warning # <<>>
  /\ d.results = <<>>

\* C1: for N distinct names, under every interleaving and every mix of
\* successful and failing requests, the call has returned only when every
\* task was collected, and the returned mapping has exactly the N input names
\* as keys, each holding the one result its own task returned.
C1_EveryNameOneResult ==
  (fpc = "returned" /\ DistinctNames) =>
     /\ \A i \in Tasks : tpc[i] = "collected"
     /\ DOMAIN fret = NameSet
     /\ Cardinality(DOMAIN fret) = Len(names)
     /\ \A i \in Tasks : fret[names[i]] = tret[i].val[2]

C1_Witness ==
  /\ fpc = "returned"
  /\ DistinctNames
  /\ Len(names) = MaxNames
  /\ \E i, j \in Tasks : reply[i] = "ok" /\ reply[j] \in Errors
  /\ Cardinality(DOMAIN fret) = MaxNames

\* C2: at every instant the number of requests sent and not yet answered is
\* at most max_concurrency, and the semaphore counts exactly the free slots,
\* so a request beyond the cap is sent only after a slot was released.
C2_ConcurrencyCap ==
  /\ Cardinality(InFlight) <= max_concurrency
  /\ sem = max_concurrency - Cardinality(InFlight)

C2_Witness ==
  /\ max_concurrency >= 1
  /\ Cardinality(InFlight) = max_concurrency
  /\ \E i \in Tasks : tpc[i] = "waiting"
  /\ \E i \in Tasks : tpc[i] \in {"done", "collected"}

\* C3: no exception ever escapes the call, and when every request of the
\* batch failed the returned mapping holds, for every name, a failure marker:
\* a warning message and an empty results list.
C3_AllFailStillReturns ==
  /\ fpc # "raised"
  /\ (fpc = "returned" /\ \A i \in Tasks : reply[i] \in Errors) =>
        \A i \in Tasks : /\ names[i] \in DOMAIN fret
                         /\ IsFailureMarker(fret[names[i]])

C3_Witness ==
  /\ fpc = "returned"
  /\ Len(names) = MaxNames
  /\ DistinctNames
  /\ \A i \in Tasks : reply[i] \in Errors
  /\ \E i, j \in Tasks : reply[i] # reply[j]
  /\ \A i \in Tasks : IsFailureMarker(fret[names[i]])

\* The Lookup Result of a name as a function of the answer to its own
\* request alone.
OwnResult(n, r) ==
  IF r = "ok" THEN [results |-> <<[id |-> n]>>]
              ELSE [warning |-> <<"Error", n, r>>, results |-> <<>>]

\* C4: the result stored for a name Y submitted once is determined by the
\* answer to Y's own request, whatever the other requests of the batch did:
\* two runs that differ only in whether another name X fails store the same
\* result for Y. A failure never ends or changes another task: a task that
\* finished did so on its own answer.
C4_FailureIsolated ==
  /\ \A y \in Tasks :
        (\A z \in Tasks : names[z] = names[y] => z = y) =>
           /\ names[y] \in DOMAIN results =>
                 results[names[y]] = OwnResult(names[y], reply[y])
           /\ fpc = "returned" => fret[names[y]] = OwnResult(names[y], reply[y])
  /\ \A y \in Tasks : (tpc[y] \in {"done", "collected"}) <=> (reply[y] # None)

C4_Witness ==
  /\ fpc = "returned"
  /\ \E x, y \in Tasks :
        /\ names[x] # names[y]
        /\ reply[x] \in Errors
        /\ reply[y] = "ok"
        /\ tpc[x] = "collected"
        /\ fret[names[y]] = ServerBody(names[y])
        /\ doneq = <<>>
        /\ x < y

\* C11: a name list with duplicates is accepted: every occurrence has a
\* request of its own that is answered, no exception leaves the call, and the
\* returned mapping has one entry per distinct name, holding what the task for
\* that name that completed last returned.
C11_DuplicatesLastWriterWins ==
  /\ fpc # "raised"
  /\ fpc = "returned" =>
       /\ \A i \in Tasks : tpc[i] = "collected" /\ reply[i] # None
       /\ DOMAIN fret = NameSet
       /\ Cardinality(DOMAIN fret) = Cardinality(NameSet)
       /\ \A n \in NameSet :
            /\ names[lastdone[n]] = n
            /\ fret[n] = tret[lastdone[n]].val[2]

C11_Witness ==
  /\ fpc = "returned"
  /\ Len(names) = 3
  /\ names[1] = names[3]
  /\ names[2] # names[1]
  /\ reply[1] \in Errors
  /\ reply[3] = "ok"
  /\ lastdone[names[1]] = 1
  /\ IsFailureMarker(fret[names[1]])

\* C14: with max_concurrency at least 1 and every request answered or failed
\* in the end, the call returns in the end; a failed request gives its slot
\* back as a successful one does, so when the call returns every slot is free
\* and no task is left waiting.
C14_EventuallyReturns ==
  /\ (max_concurrency >= 1) => <>(fpc = "returned")
  /\ [](fpc = "returned" =>
          /\ sem = max_concurrency
          /\ \A i \in Tasks : tpc[i] = "collected")

C14_Witness ==
  /\ fpc = "returned"
  /\ max_concurrency = 1
  /\ Len(names) = MaxNames
  /\ sem = max_concurrency
  /\ \A i \in Tasks : reply[i] \in Errors

(***************************************************************************)
(* Properties of delete_duplicates and extract_entities                    *)
(***************************************************************************)
\* The mention the last iteration processed.
LastIt == items[di - 1]

Stepped == dpc \in {"loop", "returned"} /\ di > 1

\* C5: the list delete_duplicates returns holds no two entries such that the
\* normalized form of one is a substring of the normalized form of the other.
C5_NoSubstringPair ==
  dpc = "returned" =>
    \A i, j \in 1..Len(out) : i # j => ~IsSubstr(norm(out[i]), norm(out[j]))

\* The accepted entries that are normalized substrings of mention `it` and
\* strictly shorter than it.
ShorterSet(o, it) ==
  {i \in 1..Len(o) : IsSubstr(norm(o[i]), norm(it)) /\ Len(it) > Len(o[i])}

\* The accepted entries that mention `it` is a normalized substring of and
\* that are at least as long as it.
CoverSet(o, it) ==
  {i \in 1..Len(o) : IsSubstr(norm(it), norm(o[i])) /\ Len(o[i]) >= Len(it)}

\* The mention was skipped: empty once normalized, equal in normalized form
\* to an accepted entry, or covered by one.
WasSkipped(o, it) ==
  \/ norm(it) = <<>>
  \/ \E i \in 1..Len(o) : norm(o[i]) = norm(it)
  \/ CoverSet(o, it) # {}

SetMin(S) == CHOOSE m \in S : \A k \in S : m <= k

\* C6: when the mention just processed was not skipped and some accepted
\* entries are normalized substrings of it and strictly shorter, the first of
\* them holds the mention now, the others are gone, and every other entry is
\* still there, in the same relative order; ["Juan", "Pedro", "Juan Pérez"]
\* yields ["Juan Pérez", "Pedro"].
C6_ReplaceFirstInPlace ==
  /\ (Stepped /\ ~WasSkipped(prev, LastIt) /\ ShorterSet(prev, LastIt) # {}) =>
        LET S == ShorterSet(prev, LastIt)
            first == SetMin(S)
            keep == (1..Len(prev)) \ (S \ {first})
            Rank(i) == Cardinality({k \in keep : k <= i})
        IN  /\ Len(out) = Cardinality(keep)
            /\ \A i \in keep :
                  out[Rank(i)] = IF i = first THEN LastIt ELSE prev[i]
            /\ first = Rank(first)
  /\ (dpc = "returned" /\ items = <<W_Juan, W_Pedro, W_JuanPerez>>) =>
        out = <<W_JuanPerez, W_Pedro>>

C6_Witness ==
  /\ Stepped
  /\ ~WasSkipped(prev, LastIt)
  /\ Cardinality(ShorterSet(prev, LastIt)) >= 2
  /\ Len(out) = 1
  /\ out[1] = LastIt

\* C7: a mention whose normalized form is a substring of the normalized form
\* of an accepted entry at least as long leaves the accepted list as it was,
\* also when the mention contains other accepted entries;
\* ["García", "Juan García", "García"] yields ["Juan García"].
C7_SkipLeavesListUnchanged ==
  /\ (Stepped /\ norm(LastIt) # <<>> /\ CoverSet(prev, LastIt) # {}) => out = prev
  /\ (dpc = "returned" /\ items = <<W_Garcia, W_JuanGarcia, W_Garcia>>) =>
        out = <<W_JuanGarcia>>

C7_Witness ==
  /\ Stepped
  /\ norm(LastIt) # <<>>
  /\ CoverSet(prev, LastIt) # {}
  /\ \A i \in 1..Len(prev) : norm(prev[i]) # norm(LastIt)
  /\ \E j \in 1..Len(prev) :
        /\ IsSubstr(norm(prev[j]), norm(LastIt))
        /\ Len(norm(prev[j])) < Len(norm(LastIt))
  /\ out = prev

\* The words of the spans labelled `l`, in order of appearance.
RECURSIVE WordsWith(_, _)
WordsWith(es, l) ==
  IF es = <<>> THEN <<>>
  ELSE (IF Head(es).entity_group = l THEN <<Head(es).word>> ELSE <<>>)
         \o WordsWith(Tail(es), l)

\* delete_duplicates as a function of its argument alone.
RECURSIVE DedupFrom(_, _)
DedupFrom(o, l) ==
  IF l = <<>> THEN o ELSE DedupFrom(DedupIteration(o, Head(l)), Tail(l))

\* C8: the dict extract_entities returns holds, under each key, the
\* deduplication of the words of the spans of that key's label alone, in order
\* of appearance: PER under persons, ORG under organizations, MISC under misc;
\* spans of any other label appear nowhere. The spans Trump (PER), Donald
\* Trump (PER) give the persons list ["Donald Trump"].
C8_EachLabelItsOwnList ==
  /\ epc = "returned" =>
       /\ DOMAIN entities = {"persons", "organizations", "misc"}
       /\ entities["persons"] = DedupFrom(<<>>, WordsWith(ents, "PER"))
       /\ entities["organizations"] = DedupFrom(<<>>, WordsWith(ents, "ORG"))
       /\ entities["misc"] = DedupFrom(<<>>, WordsWith(ents, "MISC"))
  /\ (epc = "returned"
        /\ WordsWith(ents, "PER") = <<W_Trump, W_DonaldTrump>>) =>
       entities["persons"] = <<W_DonaldTrump>>

C8_Witness ==
  /\ epc = "returned"
  /\ Len(ents) = 3
  /\ ents[1] = [word |-> W_Trump, entity_group |-> "PER"]
  /\ ents[2].entity_group \in {"LOC", "MISC"}
  /\ ents[3] = [word |-> W_DonaldTrump, entity_group |-> "PER"]
  /\ entities["persons"] = <<W_DonaldTrump>>
  /\ entities["organizations"] = <<>>

\* The normalized form as a description of the result: lower case, without
\* the characters of any "##" pair, without surrounding whitespace. In a
\* maximal run of "#" the pairs are taken from the left, so only the last
\* "#" of a run of odd length stays.
RunStartAt(s, i) ==
  CHOOSE a \in 1..i :
    /\ \A k \in a..i : s[k] = "#"
    /\ a = 1 \/ s[a - 1] # "#"

StaysAt(s, i) ==
  \/ s[i] # "#"
  \/ /\ (i = Len(s) \/ s[i + 1] # "#")
     /\ (i - RunStartAt(s, i) + 1) % 2 = 1

NormalForm(s) ==
  LET kept == SelectSeq([i \in 1..Len(s) |-> <<i, s[i]>>],
                        LAMBDA p : StaysAt(s, p[1]))
  IN  ToLower(Strip([i \in 1..Len(kept) |-> kept[i][2]]))

\* The normalized form with only the leading "##" markers stripped.
LeadingForm(s) == ToLower(Strip(RemoveLeadingMarkers(s)))

\* C12 as stated, with only leading markers stripped: a mention that is empty
\* in that form, or equal in that form to an accepted entry, is dropped; one
\* that in that form neither contains nor is contained in an accepted entry
\* is appended; no entry of the output is empty in that form.
C12_LeadingMarkersOnly ==
  /\ Stepped =>
       /\ LeadingForm(LastIt) = <<>> => out = prev
       /\ (\E i \in 1..Len(prev) : LeadingForm(prev[i]) = LeadingForm(LastIt))
            => out = prev
       /\ (/\ LeadingForm(LastIt) # <<>>
           /\ \A i \in 1..Len(prev) :
                /\ ~IsSubstr(LeadingForm(prev[i]), LeadingForm(LastIt))
                /\ ~IsSubstr(LeadingForm(LastIt), LeadingForm(prev[i])))
            => out = Append(prev, LastIt)
  /\ dpc = "returned" => \A i \in 1..Len(out) : LeadingForm(out[i]) # <<>>
  /\ (dpc = "returned" /\ items = <<>>) => out = <<>>

\* C12 (amended): mentions are compared through the form obtained by
\* removing every "##" (leading or not), trimming surrounding whitespace and
\* lower-casing: a mention that is empty in that form, or equal in that form
\* to an accepted entry, is dropped and the list stays as it was; one that in
\* that form neither contains nor is contained in an accepted entry is
\* appended; no entry of the output is empty in that form; an empty input
\* yields an empty output.
C12_NormalizedComparison ==
  /\ Stepped =>
       /\ NormalForm(LastIt) = <<>> => out = prev
       /\ (\E i \in 1..Len(prev) : NormalForm(prev[i]) = NormalForm(LastIt))
            => out = prev
       /\ (/\ NormalForm(LastIt) # <<>>
           /\ \A i \in 1..Len(prev) :
                /\ ~IsSubstr(NormalForm(prev[i]), NormalForm(LastIt))
                /\ ~IsSubstr(NormalForm(LastIt), NormalForm(prev[i])))
            => out = Append(prev, LastIt)
  /\ dpc = "returned" => \A i \in 1..Len(out) : NormalForm(out[i]) # <<>>
  /\ (dpc = "returned" /\ items = <<>>) => out = <<>>

C12_Witness ==
  /\ dpc = "returned"
  /\ items = <<W_Juan, W_Marker, W_JuMarkAn>>
  /\ out = <<W_Juan>>

\* C13: after each processed mention, every mention processed so far whose
\* normalized form is not empty is a normalized substring of some entry of
\* the accepted list; so it is in the list that is returned.
C13_NoNameLost ==
  (dpc \in {"loop", "returned"}) =>
    \A k \in 1..(di - 1) :
      norm(items[k]) # <<>> =>
        \E j \in 1..Len(out) : IsSubstr(norm(items[k]), norm(out[j]))

C13_Witness ==
  /\ dpc = "returned"
  /\ Len(items) = 3
  /\ Len(out) = 1
  /\ \A k \in 1..2 : norm(items[k]) # <<>> /\ items[k] # out[1]
  /\ out[1] = items[3]
  /\ norm(items[1]) # norm(items[2])

(***************************************************************************)
(* Properties of select_os_match_llm                                       *)
(***************************************************************************)
\* The candidates the model is shown: the first max_candidates of the list.
Shown == FirstN(os_json.results, max_candidates)

HasCandidates ==
  os_json.kind = "dict" /\ os_json.has_results /\ os_json.results # <<>>

\* The reply is a JSON object with a usable id: present, not null, not empty.
HasUsableId ==
  /\ llm_reply.kind = "object"
  /\ llm_reply.has_id
  /\ llm_reply.id \notin {Null, ""}

\* C10: select_os_match_llm returns None when the Lookup Result has no
\* candidates, when the reply is not the expected JSON object, when the id is
\* missing (no key, null or empty) or "NONE", or when no shown candidate has
\* the id; otherwise it returns, unchanged, the first shown candidate whose id
\* is the chosen id.
C10_SelectionOrNone ==
  spc = "returned" =>
    /\ ~HasCandidates => sret = NoCandidate
    /\ ~HasUsableId => sret = NoCandidate
    /\ (HasUsableId /\ llm_reply.id = "NONE") => sret = NoCandidate
    /\ (\A i \in 1..Len(Shown) : Shown[i].id # llm_reply.id) => sret = NoCandidate
    /\ (HasCandidates /\ HasUsableId /\ llm_reply.id # "NONE") =>
         \A i \in 1..Len(Shown) :
           (Shown[i].id = llm_reply.id
              /\ \A k \in 1..(i - 1) : Shown[k].id # llm_reply.id)
           => sret = <<os_json.results[i]>>

C10_Witness ==
  /\ spc = "returned"
  /\ Len(os_json.results) = 2
  /\ max_candidates = 2
  /\ os_json.results[1].id = "a"
  /\ os_json.results[2].id = "a"
  /\ os_json.results[1] # os_json.results[2]
  /\ llm_reply.kind = "object"
  /\ llm_reply.id = "a"
  /\ sret = <<os_json.results[1]>>

(***************************************************************************)
(* Properties of the run of model.py                                       *)
(***************************************************************************)
\* C9: with the required environment variables set, no failure of a single
\* external call aborts the run: when the process has ended, it ended with
\* status 0 and printed a result for every entity.
C9_NoSingleFailureAborts ==
  (rpc = "exited" /\ env_ok) =>
     /\ exit_code = 0
     /\ Len(report) = Len(all_entities)

====
